---- MODULE Spec2Model ----
(***************************************************************************)
(* The movie record store of greenlight (internal/data/movies.go): the     *)
(* movies table behind MovieModel, and callers that run Insert, Get,       *)
(* Update, Delete and GetAll against it concurrently.  Every store method  *)
(* sends one SQL statement; the backend executes a statement atomically.   *)
(* A call is two steps: the caller sends the statement (or returns at once *)
(* on id < 1), then the backend executes it and the method returns.        *)
(***************************************************************************)
EXTENDS Integers, Sequences, FiniteSets, TLC

VARIABLES
    movies,   \* the movies table: a function from the ids of the stored rows to rows
    nextId,   \* the next value of the id sequence (bigserial)
    faults,   \* whether the backend may fail a statement (timeout, connectivity)
    held,     \* held[c]: caller c's Movie variable: what it passes to Insert and
              \* Update, and where it keeps what Get returns
    op,       \* op[c]: caller c's current or last store call
    obs,      \* obs[c]: where held[c] comes from, and whether a write was applied
              \* to its row since (history)
    updates,  \* updates[id]: UPDATE statements applied to stored row id (history)
    calls,    \* the store calls made so far
    list,     \* list[c]: the arguments and the result of caller c's GetAll
    movie,    \* the candidate Movie passed to ValidateMovie
    validator, \* the Validator passed to ValidateMovie
    deleted   \* the ids of the rows DELETE statements removed (history)

vars == <<movies, nextId, faults, held, op, obs, updates, calls, list, movie, validator,
          deleted>>

\* ---------------------------------------------------------------- bounds
MaxId == 2
MaxCalls == 4
MaxRows == 3

Clients == {"c1", "c2"}
Ids == 1..MaxId
\* ids a caller may pass: 0 stands for every id < 1
CallIds == 0..MaxId

\* The title, year, runtime and genres a caller submits (validated upstream).
PayloadA == [Title |-> "A", Year |-> 2000, Runtime |-> 100, Genres |-> <<"drama", "noir">>]
PayloadB == [Title |-> "B", Year |-> 1999, Runtime |-> 90, Genres |-> <<"comedy">>]
InsertPayloads == {PayloadA}
UpdatePayloads == {PayloadB}
\* the versions a caller writes into a Movie it builds itself
LiteralVersions == 1..2

\* ---------------------------------------------------------------- errors
ErrNil == "nil"
ErrRecordNotFound == "ErrRecordNotFound"
ErrEditConflict == "ErrEditConflict"
\* any other error of the driver: context deadline exceeded, connection refused, ...
ErrStorage == "ErrStorage"
\* the call does not return: it panics
ErrPanic == "panic"

\* ---------------------------------------------------------------- Movie
\* A Movie built from a payload: ID, CreatedAt and Version hold Go's zero values.
NewMovie(p) ==
    [ID |-> 0, CreatedAt |-> 0, Title |-> p.Title, Year |-> p.Year,
     Runtime |-> p.Runtime, Genres |-> p.Genres, Version |-> 0]

\* The zero Movie stands for the nil *Movie a failed Get returns.
ZeroMovie ==
    [ID |-> 0, CreatedAt |-> 0, Title |-> "", Year |-> 0,
     Runtime |-> 0, Genres |-> <<>>, Version |-> 0]

\* The caller's edit of a Movie before Update: the four mutable fields are replaced.
Edit(m, p) ==
    [m EXCEPT !.Title = p.Title, !.Year = p.Year,
              !.Runtime = p.Runtime, !.Genres = p.Genres]

\* ---------------------------------------------------------------- table
\* The row INSERT creates: id from the sequence, created_at from the clock, version 1.
NewRow(id, t, m) ==
    [id |-> id, created_at |-> t, title |-> m.Title, year |-> m.Year,
     runtime |-> m.Runtime, genres |-> m.Genres, version |-> 1]

\* Seeded fault: Scan leaves out &movie.Version.
ScanMovieNoVersion(r) ==
    [ID |-> r.id, CreatedAt |-> r.created_at, Title |-> r.title, Year |-> r.year,
     Runtime |-> r.runtime, Genres |-> r.genres, Version |-> 0]

\* Scan of the columns id, created_at, title, year, runtime, genres, version.
ScanMovie(r) ==
    [ID |-> r.id, CreatedAt |-> r.created_at, Title |-> r.title, Year |-> r.year,
     Runtime |-> r.runtime, Genres |-> r.genres, Version |-> r.version]

\* Seeded fault: Insert scans id and created_at but not version.
InsertScanNoVersion(m, r) ==
    [m EXCEPT !.ID = r.id, !.CreatedAt = r.created_at]

\* Insert's Scan(&movie.ID, &movie.CreatedAt, &movie.Version) of RETURNING id, created_at, version
InsertScan(m, r) ==
    [m EXCEPT !.ID = r.id, !.CreatedAt = r.created_at, !.Version = r.version]

\* WHERE id = $1
WhereId(tbl, id) == id \in DOMAIN tbl

\* Seeded fault: WHERE id = $5, the version condition forgotten.
UpdateWhereIdOnly(tbl, id, version) == id \in DOMAIN tbl

\* WHERE id = $5 AND version = $6
UpdateWhere(tbl, id, version) ==
    id \in DOMAIN tbl /\ tbl[id].version = version

\* Seeded fault: SET ..., created_at = a later time.
UpdateSetCreatedAt(r, m) ==
    [r EXCEPT !.title = m.Title, !.year = m.Year, !.runtime = m.Runtime,
              !.genres = m.Genres, !.version = r.version + 1,
              !.created_at = r.created_at + 1]

\* Seeded fault: SET ..., version = version + 2.
UpdateSetSkip(r, m) ==
    [r EXCEPT !.title = m.Title, !.year = m.Year, !.runtime = m.Runtime,
              !.genres = m.Genres, !.version = r.version + 2]

\* SET title = $1, year = $2, runtime = $3, genres = $4, version = version + 1
UpdateSet(r, m) ==
    [r EXCEPT !.title = m.Title, !.year = m.Year, !.runtime = m.Runtime,
              !.genres = m.Genres, !.version = r.version + 1]

\* Seeded fault: the RETURNING version is not scanned into the Movie.
UpdateScanNone(m, r) == m

\* Update's Scan(&movie.Version) of RETURNING version
UpdateScan(m, r) == [m EXCEPT !.Version = r.version]

\* Seeded fault: sql.ErrNoRows is swallowed.
UpdateErrSwallowed(noRows) == ErrNil

\* Seeded fault: sql.ErrNoRows becomes ErrRecordNotFound, as in Get.
UpdateErrNotFound(noRows) == IF noRows THEN ErrRecordNotFound ELSE ErrNil

\* Update's switch on the error of Scan: sql.ErrNoRows becomes ErrEditConflict.
UpdateErr(noRows) == IF noRows THEN ErrEditConflict ELSE ErrNil

\* Get's switch on the error of Scan: sql.ErrNoRows becomes ErrRecordNotFound.
GetErr(noRows) == IF noRows THEN ErrRecordNotFound ELSE ErrNil

\* Seeded fault: Get takes every error of Scan for sql.ErrNoRows.
GetReturnErrAllNotFound(o, noRows) ==
    IF o # "ok" THEN ErrRecordNotFound ELSE GetErr(noRows)

\* What Get returns for the backend's outcome o: the default case of the switch
\* returns any error other than sql.ErrNoRows as it is.
GetReturnErr(o, noRows) == IF o # "ok" THEN ErrStorage ELSE GetErr(noRows)

\* What Update returns for the backend's outcome o (default: return err).
UpdateReturnErr(o, noRows) == IF o # "ok" THEN ErrStorage ELSE UpdateErr(noRows)

\* A function without the entry for id, and with the entry id :> x.
Without(f, id) == [i \in DOMAIN f \ {id} |-> f[i]]
With(f, id, x) == [i \in DOMAIN f \cup {id} |-> IF i = id THEN x ELSE f[i]]

\* ---------------------------------------------------------------- calls
\* What the backend does with a statement it was sent: "ok" executes it and
\* answers; "err" fails it without effect; "lost" executes it, but the context's
\* deadline passes before the answer is scanned.
Outcomes == IF faults THEN {"ok", "err", "lost"} ELSE {"ok"}

\* Caller c may start a call: it is not inside one.
Idle(c) == op[c].phase # "sent" /\ calls < MaxCalls

\* A call: its method, whether its statement is in flight or it has returned, the
\* id passed (Get, Delete), the error returned, the statements it sent, where the
\* caller's Movie came from when the call began (from), and four history fields:
\* raced (Update: sent while another Update with the same id and version was in
\* flight and the row had that version), again (Delete: the caller's previous call
\* was a successful Delete of the same id), failed (the backend call failed: the
\* driver returned an error other than "no row") and peer (Delete, Update: the
\* method of another caller's call on the same stored row that was in flight
\* together with this one: a Delete, or an Update carrying the row's version).
OpRec(kind, phase, id, err, sent) ==
    [kind |-> kind, phase |-> phase, id |-> id, err |-> err, sent |-> sent,
     from |-> "none", raced |-> FALSE, again |-> FALSE, failed |-> FALSE,
     peer |-> "none"]

\* The other callers whose Delete of the stored row id is in flight.
Deleting(c, id) ==
    {d \in Clients \ {c} :
        /\ op[d].kind = "Delete" /\ op[d].phase = "sent"
        /\ op[d].id = id /\ id \in DOMAIN movies}

\* The other callers whose Update of the stored row id, carrying the version the
\* row has, is in flight.
Updating(c, id) ==
    {d \in Clients \ {c} :
        /\ op[d].kind = "Update" /\ op[d].phase = "sent" /\ held[d].ID = id
        /\ id \in DOMAIN movies /\ movies[id].version = held[d].Version}

\* Seeded fault: a statement the backend failed is sent again.
AnsweredRetry(r, o) ==
    IF o = "ok" THEN [r EXCEPT !.phase = "done"] ELSE [r EXCEPT !.sent = @ + 1]

\* The call after the backend's answer o to its statement: the method returns,
\* whatever the answer; it has no loop and sends no second statement.
Answered(r, o) == [r EXCEPT !.phase = "done"]

NoObs == [src |-> "none", fresh |-> FALSE]

\* A write was applied to row id by caller c: every other copy of the row is stale.
Stale(o, c, id) ==
    [d \in Clients |-> IF d # c /\ held[d].ID = id THEN [o[d] EXCEPT !.fresh = FALSE]
                       ELSE o[d]]

\* The backend's clock, read by created_at's default: it advances with every call.
Now == calls + 1

\* ---------------------------------------------------------------- Insert
InsertCall(c, p) ==
    /\ Idle(c)
    /\ held' = [held EXCEPT ![c] = NewMovie(p)]
    /\ obs' = [obs EXCEPT ![c] = NoObs]
    /\ op' = [op EXCEPT ![c] = OpRec("Insert", "sent", 0, ErrNil, 1)]
    /\ calls' = calls + 1
    /\ UNCHANGED <<movies, nextId, faults, updates, list, movie, validator, deleted>>

\* nextval of the id sequence: the value after seq; a sequence gives no value twice.
NextVal(seq) == seq + 1

\* Seeded fault: the id is computed from the stored rows, MAX(id) + 1.
InsertIdMaxPlusOne(tbl, seq) ==
    IF DOMAIN tbl = {} THEN 1
    ELSE 1 + CHOOSE i \in DOMAIN tbl : \A j \in DOMAIN tbl : j =< i

\* The id of the row INSERT INTO movies (title, year, runtime, genres) creates: the
\* statement names no id, so the column's default gives it, the next value seq of
\* the id sequence.
InsertId(tbl, seq) == seq

InsertReturn(c) ==
    /\ op[c].kind = "Insert" /\ op[c].phase = "sent"
    /\ \E o \in Outcomes :
        LET r == NewRow(InsertId(movies, nextId), Now, held[c]) IN
        /\ o # "err" => nextId <= MaxId
        /\ movies' = IF o = "err" THEN movies ELSE With(movies, r.id, r)
        /\ updates' = IF o = "err" THEN updates ELSE With(updates, r.id, 0)
        /\ nextId' = IF o = "err" THEN nextId ELSE NextVal(nextId)
        /\ held' = IF o = "ok" THEN [held EXCEPT ![c] = InsertScan(@, r)] ELSE held
        /\ obs' = IF o = "ok"
                  THEN [obs EXCEPT ![c] = [src |-> "insert", fresh |-> TRUE]]
                  ELSE obs
        /\ op' = [op EXCEPT ![c] = [Answered(@, o) EXCEPT
                    !.failed = o # "ok",
                    !.err = IF o = "ok" THEN ErrNil ELSE ErrStorage]]
    /\ UNCHANGED <<faults, calls, list, movie, validator, deleted>>

\* ---------------------------------------------------------------- Get
\* Seeded fault: the guard is id < 0.
GetGuardNegative(id) == id < 0

\* if id < 1 { return nil, ErrRecordNotFound }
GetGuard(id) == id < 1

GetCall(c, id) ==
    /\ Idle(c)
    /\ op' = [op EXCEPT ![c] =
                IF GetGuard(id)
                THEN OpRec("Get", "done", id, ErrRecordNotFound, 0)
                ELSE [OpRec("Get", "sent", id, ErrNil, 1) EXCEPT !.from = obs[c].src]]
    /\ held' = IF GetGuard(id) THEN [held EXCEPT ![c] = ZeroMovie] ELSE held
    /\ obs' = IF GetGuard(id) THEN [obs EXCEPT ![c] = NoObs] ELSE obs
    /\ calls' = calls + 1
    /\ UNCHANGED <<movies, nextId, faults, updates, list, movie, validator, deleted>>

GetReturn(c) ==
    /\ op[c].kind = "Get" /\ op[c].phase = "sent"
    /\ \E o \in Outcomes :
        LET id == op[c].id
            hit == o = "ok" /\ WhereId(movies, id) IN
        /\ held' = [held EXCEPT ![c] = IF hit THEN ScanMovie(movies[id]) ELSE ZeroMovie]
        /\ obs' = [obs EXCEPT ![c] = IF hit THEN [src |-> "get", fresh |-> TRUE]
                                     ELSE NoObs]
        /\ op' = [op EXCEPT ![c] = [Answered(@, o) EXCEPT
                    !.failed = o # "ok", !.err = GetReturnErr(o, ~hit)]]
    /\ UNCHANGED <<movies, nextId, faults, updates, calls, list, movie, validator, deleted>>

\* ---------------------------------------------------------------- Update
\* Another caller's Update with the same id and version is in flight, and the
\* stored row has that version.
Racing(c, m) ==
    {d \in Clients \ {c} :
        /\ op[d].kind = "Update" /\ op[d].phase = "sent"
        /\ held[d].ID = m.ID /\ held[d].Version = m.Version
        /\ UpdateWhere(movies, m.ID, m.Version)}

UpdateSend(c, m, o) ==
    /\ Idle(c)
    /\ held' = [held EXCEPT ![c] = m]
    /\ obs' = [obs EXCEPT ![c] = o]
    /\ op' = [d \in Clients |->
                IF d = c
                THEN [OpRec("Update", "sent", m.ID, ErrNil, 1) EXCEPT
                        !.from = o.src, !.raced = Racing(c, m) # {},
                        !.peer = IF /\ Deleting(c, m.ID) # {}
                                    /\ movies[m.ID].version = m.Version
                                 THEN "Delete" ELSE "none"]
                ELSE IF d \in Racing(c, m) THEN [op[d] EXCEPT !.raced = TRUE]
                ELSE IF d \in Deleting(c, m.ID) /\ movies[m.ID].version = m.Version
                     THEN [op[d] EXCEPT !.peer = "Update"]
                ELSE op[d]]
    /\ calls' = calls + 1
    /\ UNCHANGED <<movies, nextId, faults, updates, list, movie, validator, deleted>>

\* The caller edits the Movie it holds (from Get, Insert or an earlier Update)
\* and passes it to Update, version as read.
UpdateHeld(c, p) ==
    /\ held[c].ID # 0
    /\ UpdateSend(c, Edit(held[c], p), obs[c])

\* The caller passes a Movie it built itself, with any id and version.
UpdateLiteral(c, p, id, v) ==
    UpdateSend(c, [NewMovie(p) EXCEPT !.ID = id, !.Version = v],
               [src |-> "literal", fresh |-> FALSE])

UpdateReturn(c) ==
    /\ op[c].kind = "Update" /\ op[c].phase = "sent"
    /\ \E o \in Outcomes :
        LET m == held[c]
            hit == o # "err" /\ UpdateWhere(movies, m.ID, m.Version)
            r == UpdateSet(movies[m.ID], m) IN
        /\ movies' = IF hit THEN [movies EXCEPT ![m.ID] = r] ELSE movies
        /\ updates' = IF hit THEN [updates EXCEPT ![m.ID] = @ + 1] ELSE updates
        /\ held' = IF hit /\ o = "ok"
                   THEN [held EXCEPT ![c] = UpdateScan(@, r)]
                   ELSE held
        /\ obs' = IF ~hit THEN obs
                  ELSE [Stale(obs, c, m.ID) EXCEPT ![c] =
                          IF o = "ok" THEN [src |-> "update", fresh |-> TRUE]
                          ELSE [@ EXCEPT !.fresh = FALSE]]
        /\ op' = [op EXCEPT ![c] = [Answered(@, o) EXCEPT
                    !.failed = o # "ok", !.err = UpdateReturnErr(o, ~hit)]]
    /\ UNCHANGED <<nextId, faults, calls, list, movie, validator, deleted>>

\* ---------------------------------------------------------------- Delete
\* if id < 1 { return ErrRecordNotFound }
DeleteGuard(id) == id < 1

DeleteCall(c, id) ==
    /\ Idle(c)
    /\ op' = [d \in Clients |->
                IF d # c
                THEN IF DeleteGuard(id) \/ d \notin Deleting(c, id) \cup Updating(c, id)
                     THEN op[d]
                     ELSE [op[d] EXCEPT !.peer = "Delete"]
                ELSE IF DeleteGuard(id)
                THEN OpRec("Delete", "done", id, ErrRecordNotFound, 0)
                ELSE [OpRec("Delete", "sent", id, ErrNil, 1) EXCEPT
                        !.again = /\ op[c].kind = "Delete" /\ op[c].phase = "done"
                                  /\ op[c].err = ErrNil /\ op[c].id = id,
                        !.peer = IF Deleting(c, id) # {} THEN "Delete"
                                 ELSE IF Updating(c, id) # {} THEN "Update"
                                 ELSE "none"]]
    /\ calls' = calls + 1
    /\ UNCHANGED <<movies, nextId, faults, held, obs, updates, list, movie, validator, deleted>>

\* result.RowsAffected() of DELETE FROM movies WHERE id = $1
RowsAffected(tbl, id) == IF WhereId(tbl, id) THEN 1 ELSE 0

\* Seeded fault: the affected-row count is not inspected.
DeleteErrIgnored(rowsAffected) == ErrNil

\* if rowsAffected == 0 { return ErrRecordNotFound }; return nil
DeleteErr(rowsAffected) == IF rowsAffected = 0 THEN ErrRecordNotFound ELSE ErrNil

\* What Delete returns for the backend's outcome o: an error of ExecContext or of
\* RowsAffected is returned as it is.
DeleteReturnErr(o, rowsAffected) ==
    IF o # "ok" THEN ErrStorage ELSE DeleteErr(rowsAffected)

DeleteReturn(c) ==
    /\ op[c].kind = "Delete" /\ op[c].phase = "sent"
    /\ \E o \in Outcomes :
        LET id == op[c].id
            n == IF o = "err" THEN 0 ELSE RowsAffected(movies, id) IN
        /\ movies' = IF n = 0 THEN movies ELSE Without(movies, id)
        /\ updates' = IF n = 0 THEN updates ELSE Without(updates, id)
        /\ obs' = IF n = 0 THEN obs
                  ELSE [d \in Clients |-> IF held[d].ID = id
                                          THEN [obs[d] EXCEPT !.fresh = FALSE]
                                          ELSE obs[d]]
        /\ op' = [op EXCEPT ![c] = [Answered(@, o) EXCEPT
                    !.failed = o # "ok", !.err = DeleteReturnErr(o, n)]]
        /\ deleted' = IF n = 0 THEN deleted ELSE deleted \cup {id}
    /\ UNCHANGED <<nextId, faults, held, calls, list, movie, validator>>

\* ---------------------------------------------------------------- GetAll
\* The sort values the list handler permits.
MovieSafelist ==
    {"id", "title", "year", "runtime", "-id", "-title", "-year", "-runtime"}

Descending == {"-id", "-title", "-year", "-runtime"}

\* strings.TrimPrefix(s, "-") on the sort values
TrimDash(s) ==
    CASE s = "-id" -> "id" [] s = "-title" -> "title" [] s = "-year" -> "year"
      [] s = "-runtime" -> "runtime" [] OTHER -> s

\* Filters.sortColumn(): the column of a safelisted sort value; any other value is
\* rejected (ErrPanic: the call goes no further).
sortColumn(f) == IF f.Sort \in f.SortSafelist THEN TrimDash(f.Sort) ELSE ErrPanic

\* Filters.sortDirection(): DESC for a value prefixed with "-".
sortDirection(f) == IF f.Sort \in Descending THEN "DESC" ELSE "ASC"

\* The titles of the listed rows, in the order of the column's collation.
Collation == <<"Alien", "Blade", "Blade Runner">>
TitleRank(t) == CHOOSE i \in 1..Len(Collation) : Collation[i] = t

\* to_tsvector('simple', title) and plainto_tsquery('simple', $1): the lower-cased
\* words of a text.
Lexemes(t) ==
    CASE t = "Alien" -> {"alien"}
      [] t = "Blade" -> {"blade"}
      [] t = "Blade Runner" -> {"blade", "runner"}
      [] t = "blade" -> {"blade"}
      [] OTHER -> {}

\* (to_tsvector('simple', title) @@ plainto_tsquery('simple', $1) OR $1 = '')
TitleMatches(r, title) ==
    \/ Lexemes(title) # {} /\ Lexemes(title) \subseteq Lexemes(r.title)
    \/ title = ""

Elems(a) == {a[i] : i \in DOMAIN a}

\* pq.Array(genres): a nil slice is sent as NULL, any other slice as an array.
pqArray(g) == [null |-> g.isNil, a |-> g.elems]

\* (genres @> $2 OR $2 = '{}'): NULL for a NULL $2, which selects no row.
GenresMatch(r, arr) ==
    /\ ~arr.null
    /\ Elems(arr.a) \subseteq Elems(r.genres) \/ arr.a = <<>>

\* The value of a column of a row, as ORDER BY compares it.
Col(r, col) ==
    CASE col = "id" -> r.id [] col = "title" -> TitleRank(r.title)
      [] col = "year" -> r.year [] col = "runtime" -> r.runtime

\* Seeded fault: ORDER BY filters.Sort, the value as the client sent it.
OrderKeysVerbatim(f) ==
    << [col |-> f.Sort, dir |-> "ASC"], [col |-> "id", dir |-> "ASC"] >>

\* Seeded fault: ORDER BY %s %s, id %s: the tie-break follows the requested direction.
OrderKeysTieFollows(f) ==
    << [col |-> sortColumn(f), dir |-> sortDirection(f)],
       [col |-> "id", dir |-> sortDirection(f)] >>

\* ORDER BY %s %s, id ASC
OrderKeys(f) ==
    << [col |-> sortColumn(f), dir |-> sortDirection(f)],
       [col |-> "id", dir |-> "ASC"] >>

\* Row x sorts strictly before row y under the ORDER BY keys.
Precedes(x, y, keys) ==
    \E k \in 1..Len(keys) :
        /\ \A j \in 1..(k - 1) : Col(x, keys[j].col) = Col(y, keys[j].col)
        /\ IF keys[k].dir = "ASC" THEN Col(x, keys[k].col) < Col(y, keys[k].col)
           ELSE Col(x, keys[k].col) > Col(y, keys[k].col)

\* The orders in which the backend may return the rows ids: every order of them that
\* ORDER BY permits (rows the keys do not separate come in any order).
Orderings(tbl, ids, keys) ==
    {s \in [1..Cardinality(ids) -> ids] :
        /\ \A i, j \in DOMAIN s : i # j => s[i] # s[j]
        /\ \A i, j \in DOMAIN s : i < j => ~Precedes(tbl[s[j]], tbl[s[i]], keys)}

\* The rows the WHERE clause of GetAll selects.
Selected(tbl, title, arr) ==
    {id \in DOMAIN tbl : TitleMatches(tbl[id], title) /\ GenresMatch(tbl[id], arr)}

\* The columns of movies that ORDER BY can compare in the listed tables.
SortableColumns == {"id", "title", "year", "runtime"}

\* query: the ORDER BY keys in the query text GetAll built, <<>> when it built none.
NoList == [title |-> "", genres |-> [isNil |-> FALSE, elems |-> <<>>],
           filters |-> [Page |-> 0, PageSize |-> 0, Sort |-> "", SortSafelist |-> {}],
           query |-> <<>>, out |-> <<>>, prev |-> <<>>]

\* fmt.Sprintf evaluates filters.sortColumn() before it assembles the text: when
\* that panics, no query text exists and nothing is sent.  Otherwise the query is
\* sent with QueryContext (sent |-> 1).  prev keeps the result of the caller's
\* previous GetAll when it had the same arguments.
GetAllCall(c, title, genres, f) ==
    /\ op[c].phase # "sent"
    /\ op' = [op EXCEPT ![c] =
                IF OrderKeys(f)[1].col = ErrPanic
                THEN OpRec("GetAll", "done", 0, ErrPanic, 0)
                ELSE OpRec("GetAll", "sent", 0, ErrNil, 1)]
    /\ list' = [list EXCEPT ![c] =
                [title |-> title, genres |-> genres, filters |-> f, out |-> <<>>,
                 query |-> IF OrderKeys(f)[1].col = ErrPanic THEN <<>> ELSE OrderKeys(f),
                 prev |-> IF /\ op[c].kind = "GetAll" /\ op[c].err = ErrNil
                             /\ list[c].title = title /\ list[c].genres = genres
                             /\ list[c].filters = f
                          THEN <<list[c].out>> ELSE <<>>]]
    /\ UNCHANGED <<movies, nextId, faults, held, obs, updates, calls, movie, validator, deleted>>

\* Seeded fault: a query that selects no row is answered like Get's sql.ErrNoRows.
GetAllErrNoRows(n) == IF n = 0 THEN ErrRecordNotFound ELSE ErrNil

\* if err = rows.Err(); err != nil { return nil, err }; return movies, nil: the
\* error after n rows were scanned from a query that ran.
GetAllErr(n) == ErrNil

\* rows.Next / rows.Scan / append, in the order the backend returns the rows.  The
\* backend fails a query whose ORDER BY names no column of movies.
GetAllReturn(c) ==
    /\ op[c].kind = "GetAll" /\ op[c].phase = "sent"
    /\ \E o \in Outcomes :
        LET a == list[c]
            ran == o = "ok" /\ a.query[1].col \in SortableColumns
            ids == IF ran THEN Selected(movies, a.title, pqArray(a.genres)) ELSE {} IN
        \E s \in Orderings(movies, ids, a.query) :
            /\ list' = [list EXCEPT ![c].out =
                          [i \in DOMAIN s |-> ScanMovie(movies[s[i]])]]
            /\ op' = [op EXCEPT ![c] = [@ EXCEPT !.phase = "done", !.failed = ~ran,
                        !.err = IF ran THEN GetAllErr(Cardinality(ids)) ELSE ErrStorage]]
    /\ UNCHANGED <<movies, nextId, faults, held, obs, updates, calls, movie, validator, deleted>>

\* ---------------------------------------------------------------- Validator
\* validator.New(): no failure recorded.  ran and now are history: whether
\* ValidateMovie has run on the Validator, and the year time.Now() gave it.
NewValidator == [Errors |-> <<>>, ran |-> FALSE, now |-> 0]

\* AddError(key, message): the message is recorded unless key already has one.
AddError(v, key, message) ==
    IF key \in DOMAIN v.Errors THEN v ELSE [v EXCEPT !.Errors = With(@, key, message)]

\* Check(ok, key, message)
Check(v, ok, key, message) == IF ok THEN v ELSE AddError(v, key, message)

\* Valid(): no failure is recorded.
Valid(v) == DOMAIN v.Errors = {}

\* validator.Unique(values): the values are pairwise distinct.
Unique(values) ==
    \A i, j \in DOMAIN values : i # j => values[i] # values[j]

\* ---------------------------------------------------------------- ValidateMovie
MaxTitleBytes == 500
MinYear == 1888
MinGenres == 1
MaxGenres == 5

\* time.Now().Year(): the calendar year when ValidateMovie runs.
ThisYear == {2025, 2026}

\* len(movie.Title) of the candidate titles: their length in bytes.
ByteLen(t) ==
    CASE t = "" -> 0 [] t = "A" -> 1 [] t = "T500" -> 500 [] t = "T501" -> 501

\* len(movie.Genres): 0 for a nil slice.
GenresLen(g) == IF g.isNil THEN 0 ELSE Len(g.elems)

\* The Check calls on the title, in the order of the code.
TitleChecks(m) ==
    << [ok |-> m.Title # "", key |-> "title", message |-> "must be provided"],
       [ok |-> ByteLen(m.Title) <= MaxTitleBytes, key |-> "title",
        message |-> "must not be more than 500 bytes long"] >>

\* Seeded fault: the check against time.Now().Year() is left out.
YearChecksNoFuture(m, year) ==
    << [ok |-> m.Year # 0, key |-> "year", message |-> "must be provided"],
       [ok |-> m.Year >= MinYear, key |-> "year", message |-> "must be greator than 1888"] >>

\* The Check calls on the year; year is int32(time.Now().Year()).
YearChecks(m, year) ==
    << [ok |-> m.Year # 0, key |-> "year", message |-> "must be provided"],
       [ok |-> m.Year >= MinYear, key |-> "year", message |-> "must be greator than 1888"],
       [ok |-> m.Year <= year, key |-> "year", message |-> "must not be in the future"] >>

\* The Check calls on the runtime.
RuntimeChecks(m) ==
    << [ok |-> m.Runtime # 0, key |-> "runtime", message |-> "must be provided"],
       [ok |-> m.Runtime > 0, key |-> "runtime", message |-> "must be a positive integers"] >>

\* The Check calls on the genres.
GenresChecks(m) ==
    << [ok |-> ~m.Genres.isNil, key |-> "genres", message |-> "must be provided"],
       [ok |-> GenresLen(m.Genres) >= MinGenres, key |-> "genres",
        message |-> "must contain at least 1 genre"],
       [ok |-> GenresLen(m.Genres) <= MaxGenres, key |-> "genres",
        message |-> "must not contain more than 5 genres"],
       [ok |-> Unique(m.Genres.elems), key |-> "genres",
        message |-> "must not contain duplicate values"] >>

\* The body of ValidateMovie: its eleven Check calls in order.
MovieChecks(m, year) ==
    TitleChecks(m) \o YearChecks(m, year) \o RuntimeChecks(m) \o GenresChecks(m)

\* Seeded fault: ValidateMovie returns at the first Check that fails.
RECURSIVE RunChecksShortCircuit(_, _, _)
RunChecksShortCircuit(v, checks, i) ==
    IF i > Len(checks) \/ ~Valid(v) THEN v
    ELSE RunChecksShortCircuit(Check(v, checks[i].ok, checks[i].key, checks[i].message),
                               checks, i + 1)

\* The Validator after the Check calls i.. of checks: every call is made, whatever
\* the calls before it recorded.
RECURSIVE RunChecks(_, _, _)
RunChecks(v, checks, i) ==
    IF i > Len(checks) THEN v
    ELSE RunChecks(Check(v, checks[i].ok, checks[i].key, checks[i].message),
                   checks, i + 1)

\* ValidateMovie(v, movie): the candidate Movie is read, the Validator written.
ValidateMovie ==
    /\ ~validator.ran
    /\ \E year \in ThisYear :
        validator' = [RunChecks(validator, MovieChecks(movie, year), 1) EXCEPT
                        !.ran = TRUE, !.now = year]
    /\ movie' = movie
    /\ UNCHANGED <<movies, nextId, faults, held, op, obs, updates, calls, list, deleted>>

\* ---------------------------------------------------------------- specification
\* No Movie is being validated.
NoCandidate ==
    [ID |-> 0, CreatedAt |-> 0, Title |-> "", Year |-> 0, Runtime |-> 0,
     Genres |-> [isNil |-> TRUE, elems |-> <<>>], Version |-> 0]

InitStore ==
    /\ movie = NoCandidate
    /\ validator = NewValidator
    /\ deleted = {}
    /\ movies = <<>>
    /\ nextId = 1
    /\ held = [c \in Clients |-> ZeroMovie]
    /\ op = [c \in Clients |-> OpRec("none", "idle", 0, ErrNil, 0)]
    /\ obs = [c \in Clients |-> NoObs]
    /\ updates = <<>>
    /\ calls = 0
    /\ list = [c \in Clients |-> NoList]

Init == InitStore /\ faults = TRUE

InitReliable == InitStore /\ faults = FALSE

Next ==
    \/ \E c \in Clients, p \in InsertPayloads : InsertCall(c, p)
    \/ \E c \in Clients : InsertReturn(c)
    \/ \E c \in Clients, id \in CallIds : GetCall(c, id)
    \/ \E c \in Clients : GetReturn(c)
    \/ \E c \in Clients, p \in UpdatePayloads : UpdateHeld(c, p)
    \/ \E c \in Clients, p \in UpdatePayloads, id \in Ids, v \in LiteralVersions :
            UpdateLiteral(c, p, id, v)
    \/ \E c \in Clients : UpdateReturn(c)
    \/ \E c \in Clients, id \in CallIds : DeleteCall(c, id)
    \/ \E c \in Clients : DeleteReturn(c)

\* The store against a backend that may fail statements.
Spec == Init /\ [][Next]_vars

\* The store against a backend that executes every statement it is sent.
SpecReliable == InitReliable /\ [][Next]_vars

\* ---------------------------------------------------------------- listing
\* The rows of the tables GetAll is run against.
ListPayloads ==
    { [Title |-> "Alien", Year |-> 1979, Runtime |-> 117, Genres |-> <<"drama", "noir">>],
      [Title |-> "Blade Runner", Year |-> 1982, Runtime |-> 117, Genres |-> <<"noir">>],
      [Title |-> "Blade", Year |-> 1998, Runtime |-> 120, Genres |-> <<"comedy">>] }

\* The arguments GetAll is called with.
ListTitles == {"", "blade"}
ListGenres ==
    { [isNil |-> FALSE, elems |-> <<>>], [isNil |-> FALSE, elems |-> <<"drama">>],
      [isNil |-> FALSE, elems |-> <<"noir">>], [isNil |-> TRUE, elems |-> <<>>] }
\* a sort value a client may send that the safelist does not hold
UnsafeSorts == {"id; DROP TABLE movies"}
ListFilters ==
    [Page : {1}, PageSize : {2}, Sort : MovieSafelist \cup UnsafeSorts,
     SortSafelist : {MovieSafelist}]

\* The caller that lists.
Lister == "c1"

\* Any table of at most MaxRows rows, as Inserts, Updates and Deletes leave it.
InitList ==
    /\ movie = NoCandidate
    /\ validator = NewValidator
    /\ deleted = {}
    /\ \E ids \in SUBSET (1..MaxRows) :
        \E f \in [ids -> ListPayloads] :
            /\ movies = [i \in ids |-> NewRow(i, i, NewMovie(f[i]))]
            /\ updates = [i \in ids |-> 0]
    /\ nextId = MaxRows + 1
    /\ faults = FALSE
    /\ held = [c \in Clients |-> ZeroMovie]
    /\ op = [c \in Clients |-> OpRec("none", "idle", 0, ErrNil, 0)]
    /\ obs = [c \in Clients |-> NoObs]
    /\ calls = 0
    /\ list = [c \in Clients |-> NoList]

NextList ==
    \/ \E t \in ListTitles, g \in ListGenres, f \in ListFilters : GetAllCall(Lister, t, g, f)
    \/ GetAllReturn(Lister)

\* GetAll against a table that does not change.
SpecList == InitList /\ [][NextList]_vars

\* ---------------------------------------------------------------- readers and a writer
\* The caller that gets and updates while Lister lists.
Writer == "c2"

\* The arguments of the GetAll that runs beside the writer: no title, no genres.
FrameGenres == {[isNil |-> FALSE, elems |-> <<>>]}
FrameFilters ==
    [Page : {1}, PageSize : {2}, Sort : {"id", "-id"}, SortSafelist : {MovieSafelist}]

\* A table of MaxRows rows.
InitFrame ==
    /\ \E f \in [1..MaxRows -> ListPayloads] :
            movies = [i \in 1..MaxRows |-> NewRow(i, i, NewMovie(f[i]))]
    /\ updates = [i \in 1..MaxRows |-> 0]
    /\ nextId = MaxRows + 1
    /\ faults = FALSE
    /\ held = [c \in Clients |-> ZeroMovie]
    /\ op = [c \in Clients |-> OpRec("none", "idle", 0, ErrNil, 0)]
    /\ obs = [c \in Clients |-> NoObs]
    /\ calls = 0
    /\ list = [c \in Clients |-> NoList]
    /\ movie = NoCandidate
    /\ validator = NewValidator
    /\ deleted = {}

NextFrame ==
    \/ \E g \in FrameGenres, f \in FrameFilters : GetAllCall(Lister, "", g, f)
    \/ GetAllReturn(Lister)
    \/ \E id \in CallIds : GetCall(Writer, id)
    \/ GetReturn(Writer)
    \/ \E p \in UpdatePayloads : UpdateHeld(Writer, p)
    \/ UpdateReturn(Writer)

\* Get, Update and GetAll side by side on a table of MaxRows rows.
SpecFrame == InitFrame /\ [][NextFrame]_vars

\* ---------------------------------------------------------------- validation
\* The candidate Movies: what a client may submit (a new Movie, or a stored one it
\* edited), field by field.
CandidateTitles == {"", "A", "T500", "T501"}
CandidateYears == {0, 1887, 1888, 2026, 2027, 2028}
CandidateRuntimes == {-1, 0, 100}
CandidateGenres ==
    { [isNil |-> TRUE, elems |-> <<>>],
      [isNil |-> FALSE, elems |-> <<>>],
      [isNil |-> FALSE, elems |-> <<"drama">>],
      [isNil |-> FALSE, elems |-> <<"drama", "drama">>],
      [isNil |-> FALSE, elems |-> <<"a", "b", "c", "d", "e">>],
      [isNil |-> FALSE, elems |-> <<"a", "b", "c", "d", "e", "f">>],
      [isNil |-> FALSE, elems |-> <<"a", "b", "c", "d", "e", "a">>] }
CandidateIds == {0, 1}

InitValidate ==
    /\ \E t \in CandidateTitles, y \in CandidateYears, r \in CandidateRuntimes,
          g \in CandidateGenres, id \in CandidateIds :
            movie = [ID |-> id, CreatedAt |-> id, Title |-> t, Year |-> y,
                     Runtime |-> r, Genres |-> g, Version |-> id]
    /\ validator = NewValidator
    /\ deleted = {}
    /\ movies = <<>>
    /\ nextId = 1
    /\ faults = FALSE
    /\ held = [c \in Clients |-> ZeroMovie]
    /\ op = [c \in Clients |-> OpRec("none", "idle", 0, ErrNil, 0)]
    /\ obs = [c \in Clients |-> NoObs]
    /\ updates = <<>>
    /\ calls = 0
    /\ list = [c \in Clients |-> NoList]

NextValidate == ValidateMovie

\* ValidateMovie on a fresh Validator and any candidate Movie.
SpecValidate == InitValidate /\ [][NextValidate]_vars

\* ================================================================ claims
\* A step in which caller c's Update, Get or Delete returns.
UpdateReturns(c) == op[c].kind = "Update" /\ op[c].phase = "sent" /\ op'[c].phase = "done"
GetReturns(c) == op[c].kind = "Get" /\ op[c].phase = "sent" /\ op'[c].phase = "done"
DeleteReturns(c) == op[c].kind = "Delete" /\ op[c].phase = "sent" /\ op'[c].phase = "done"

DoneUpdate(c) == op[c].kind = "Update" /\ op[c].phase = "done"

\* C1: of two Updates on the same stored id that carry the same current version
\* and are in flight together (the two callers are the only writers), exactly one
\* returns nil and the other ErrEditConflict.
C1_ExactlyOneUpdateWins ==
    \A a, b \in Clients :
        (a # b /\ DoneUpdate(a) /\ DoneUpdate(b) /\ op[a].raced /\ op[b].raced)
            => {op[a].err, op[b].err} = {ErrNil, ErrEditConflict}

C1_Witness ==
    \E a, b \in Clients :
        /\ a # b /\ DoneUpdate(a) /\ DoneUpdate(b) /\ op[a].raced /\ op[b].raced
        /\ op[a].err = ErrNil /\ op[b].err = ErrEditConflict
        /\ held[a].ID = held[b].ID

\* C2: an Update that returns nil on a Movie its caller read with Get found the row
\* as the caller read it: no UPDATE or DELETE was applied to that id since the Get.
C2_NoLostWrite ==
    [][\A c \in Clients :
        (UpdateReturns(c) /\ op'[c].err = ErrNil /\ op[c].from = "get")
            => /\ obs[c].fresh
               /\ held[c].ID \in DOMAIN movies
               /\ ScanMovie(movies[held[c].ID]).Version = held[c].Version
               /\ ScanMovie(movies[held[c].ID]).CreatedAt = held[c].CreatedAt]_vars

C2_Witness ==
    \E c \in Clients : DoneUpdate(c) /\ op[c].err = ErrNil /\ op[c].from = "get"

\* C3: an Update whose version differs from the version of the stored row returns
\* ErrEditConflict and leaves the table as it was.
C3_StaleVersionConflicts ==
    [][\A c \in Clients :
        (/\ UpdateReturns(c)
         /\ held[c].ID \in DOMAIN movies
         /\ movies[held[c].ID].version # held[c].Version)
            => op'[c].err = ErrEditConflict /\ movies' = movies]_vars

C3_Witness ==
    \E c \in Clients :
        /\ DoneUpdate(c) /\ op[c].err = ErrEditConflict
        /\ held[c].ID \in DOMAIN movies
        /\ movies[held[c].ID].version # held[c].Version

\* C4: a stored row's version is 1 when the row appears and is always 1 plus the
\* number of UPDATE statements applied to the row; an Update that returns nil has
\* raised it by exactly 1, and no step lowers it or raises it by more than 1.
C4_VersionCountsUpdates ==
    [][/\ \A id \in DOMAIN movies' :
            /\ movies'[id].version = 1 + updates'[id]
            /\ IF id \in DOMAIN movies
               THEN movies'[id].version \in {movies[id].version, movies[id].version + 1}
               ELSE movies'[id].version = 1
       /\ \A c \in Clients :
            (UpdateReturns(c) /\ op'[c].err = ErrNil)
                => movies'[held[c].ID].version = movies[held[c].ID].version + 1
       /\ \A c \in Clients :
            (UpdateReturns(c) /\ op'[c].err = ErrEditConflict) => movies' = movies]_vars

C4_Witness ==
    \E id \in DOMAIN movies : movies[id].version = 3 /\ updates[id] = 2

\* C5: a Get or Delete with id < 1 returns ErrRecordNotFound and has sent no
\* statement to the backend.
C5_BadIdNoBackendCall ==
    \A c \in Clients :
        (op[c].kind \in {"Get", "Delete"} /\ op[c].id < 1 /\ op[c].phase # "idle")
            => op[c].phase = "done" /\ op[c].err = ErrRecordNotFound /\ op[c].sent = 0

C5_Witness ==
    \E c, d \in Clients :
        /\ op[c].kind = "Get" /\ op[c].id < 1 /\ op[c].err = ErrRecordNotFound
        /\ op[d].kind = "Delete" /\ op[d].id < 1 /\ op[d].err = ErrRecordNotFound

\* C6: a Get of the id Insert returned, with no write to that row in between,
\* returns nil and a Movie equal in every field to the Movie Insert wrote back.
C6_InsertGetRoundTrip ==
    [][\A c \in Clients :
        (/\ GetReturns(c) /\ obs[c].src = "insert" /\ obs[c].fresh
         /\ op[c].id = held[c].ID)
            => op'[c].err = ErrNil /\ held'[c] = held[c]]_vars

C6_Witness ==
    \E c \in Clients :
        /\ op[c].kind = "Get" /\ op[c].phase = "done" /\ op[c].err = ErrNil
        /\ op[c].from = "insert" /\ held[c].ID = op[c].id
        /\ held[c].Title = PayloadA.Title /\ held[c].Genres = PayloadA.Genres
        /\ held[c].Version = 1 /\ held[c].CreatedAt > 0

\* C7: an Update whose id matches no stored row returns ErrEditConflict and leaves
\* the table as it was (no row is created).
C7_UpdateMissingRowConflicts ==
    [][\A c \in Clients :
        (UpdateReturns(c) /\ held[c].ID \notin DOMAIN movies)
            => op'[c].err = ErrEditConflict /\ movies' = movies]_vars

C7_Witness ==
    \E c \in Clients :
        /\ DoneUpdate(c) /\ op[c].err = ErrEditConflict
        /\ held[c].ID >= nextId /\ held[c].ID \notin DOMAIN movies

\* C8: a Delete with id >= 1 returns nil iff the row is stored when the statement
\* runs, and then removes that row and no other; otherwise it returns
\* ErrRecordNotFound and changes nothing; a Delete repeated after a successful
\* Delete of the same id returns ErrRecordNotFound.
C8_DeleteIffStored ==
    [][\A c \in Clients :
        DeleteReturns(c) =>
            LET id == op[c].id IN
            /\ op'[c].err = ErrNil <=> id \in DOMAIN movies
            /\ id \in DOMAIN movies =>
                /\ DOMAIN movies' = DOMAIN movies \ {id}
                /\ \A i \in DOMAIN movies' : movies'[i] = movies[i]
            /\ id \notin DOMAIN movies =>
                op'[c].err = ErrRecordNotFound /\ movies' = movies
            /\ op[c].again => op'[c].err = ErrRecordNotFound]_vars

C8_Witness ==
    \E c \in Clients :
        /\ op[c].kind = "Delete" /\ op[c].phase = "done"
        /\ op[c].again /\ op[c].err = ErrRecordNotFound

DoneGetAll(c) == op[c].kind = "GetAll" /\ op[c].phase = "done" /\ op[c].err = ErrNil

\* C9: GetAll returns a page: at most page_size records (those from offset
\* (page - 1) * page_size on), with the count of all matching records.
C9_ListReturnsPage ==
    \A c \in Clients :
        DoneGetAll(c) => Len(list[c].out) <= list[c].filters.PageSize

\* The value a returned Movie has in the column a sort value names.
SortValue(m, sort) ==
    CASE sort \in {"id", "-id"} -> m.ID
      [] sort \in {"title", "-title"} -> TitleRank(m.Title)
      [] sort \in {"year", "-year"} -> m.Year
      [] sort \in {"runtime", "-runtime"} -> m.Runtime

\* C10: the records GetAll returns are in the order of the requested column and
\* direction, records equal on that column are in ascending id order whatever the
\* direction, and a repeated GetAll with the same arguments returns the same sequence.
C10_ListOrder ==
    \A c \in Clients :
        DoneGetAll(c) =>
            LET out == list[c].out
                sort == list[c].filters.Sort IN
            /\ \A i, j \in DOMAIN out :
                i < j =>
                    LET x == SortValue(out[i], sort)
                        y == SortValue(out[j], sort) IN
                    /\ IF sort \in Descending THEN x >= y ELSE x =< y
                    /\ x = y => out[i].ID < out[j].ID
            /\ list[c].prev # <<>> => out = list[c].prev[1]

C10_Witness ==
    \E c \in Clients :
        /\ DoneGetAll(c) /\ list[c].filters.Sort = "-runtime"
        /\ list[c].prev # <<>>
        /\ Len(list[c].out) = 3
        /\ list[c].out[1].Runtime > list[c].out[2].Runtime
        /\ list[c].out[2].Runtime = list[c].out[3].Runtime
        /\ list[c].out[2].ID < list[c].out[3].ID

\* C11: a GetAll whose sort value is not on the safelist goes no further than
\* sortColumn: it builds no query text and sends nothing; the ORDER BY of every
\* query text GetAll builds names a column resolved from a safelisted sort value.
C11_UnsafeSortBuildsNoQuery ==
    \A c \in Clients :
        op[c].kind = "GetAll" =>
            LET a == list[c] IN
            /\ a.filters.Sort \notin a.filters.SortSafelist =>
                /\ op[c].phase = "done" /\ op[c].err = ErrPanic
                /\ op[c].sent = 0 /\ a.query = <<>>
            /\ a.query # <<>> =>
                /\ a.filters.Sort \in a.filters.SortSafelist
                /\ a.query[1].col \in {TrimDash(x) : x \in a.filters.SortSafelist}
                /\ a.query[1].col \notin UnsafeSorts
                /\ a.query[1].dir \in {"ASC", "DESC"}

C11_Witness ==
    \E c \in Clients :
        /\ op[c].kind = "GetAll" /\ op[c].phase = "done"
        /\ list[c].filters.Sort \in UnsafeSorts
        /\ op[c].err = ErrPanic /\ op[c].sent = 0 /\ list[c].query = <<>>

\* The ids of the records a GetAll returned.
Returned(c) == {list[c].out[i].ID : i \in DOMAIN list[c].out}

\* The genres a GetAll asked for, as a set.
Requested(c) == Elems(list[c].genres.elems)

\* C12: with a non-empty requested genre set, GetAll returns a record (among those
\* the title phrase admits) iff its stored genres are a superset of the requested
\* set; with an empty requested set the genre filter excludes no record.
C12_GenreContainment ==
    \A c \in Clients :
        DoneGetAll(c) =>
            \A id \in DOMAIN movies :
                TitleMatches(movies[id], list[c].title) =>
                    (id \in Returned(c) <=>
                        \/ Requested(c) = {}
                        \/ Requested(c) \subseteq Elems(movies[id].genres))

\* All tokens of the phrase appear in the title; the empty phrase admits every title.
TitleAdmits(phrase, title) ==
    phrase = "" \/ (Lexemes(phrase) # {} /\ Lexemes(phrase) \subseteq Lexemes(title))

\* C13: GetAll returns exactly the stored records that satisfy both the title
\* predicate and the genre predicate, each disabled by its empty value: with an
\* empty phrase and an empty genre set it returns every stored record.
C13_FiltersConjunctive ==
    \A c \in Clients :
        DoneGetAll(c) =>
            /\ Returned(c) =
                  {id \in DOMAIN movies :
                      /\ TitleAdmits(list[c].title, movies[id].title)
                      /\ \A g \in Requested(c) : g \in Elems(movies[id].genres)}
            /\ (list[c].title = "" /\ Len(list[c].genres.elems) = 0)
                    => Returned(c) = DOMAIN movies

\* C17: a GetAll whose query ran and selected no row returns nil and an empty list.
C17_EmptyResultIsSuccess ==
    \A c \in Clients :
        (/\ op[c].kind = "GetAll" /\ op[c].phase = "done" /\ op[c].sent = 1
         /\ Selected(movies, list[c].title, pqArray(list[c].genres)) = {})
            => op[c].err = ErrNil /\ list[c].out = <<>>

C17_Witness ==
    \E c \in Clients :
        /\ op[c].kind = "GetAll" /\ op[c].phase = "done" /\ op[c].sent = 1
        /\ Cardinality(DOMAIN movies) = MaxRows
        /\ list[c].title = "blade" /\ list[c].genres.elems = <<"drama">>
        /\ op[c].err = ErrNil /\ list[c].out = <<>>

\* The fields of the candidate Movie that break a rule in the year now, and for each
\* the message of the first rule it breaks, in the order the rules are listed.
Offending(m, now) ==
    {k \in {"title", "year", "runtime", "genres"} :
        CASE k = "title" -> m.Title = "" \/ ByteLen(m.Title) > 500
          [] k = "year" -> m.Year = 0 \/ m.Year < 1888 \/ m.Year > now
          [] k = "runtime" -> m.Runtime =< 0
          [] k = "genres" ->
                \/ m.Genres.isNil \/ Len(m.Genres.elems) < 1 \/ Len(m.Genres.elems) > 5
                \/ Cardinality(Elems(m.Genres.elems)) # Len(m.Genres.elems)}

FirstMessage(m, now, k) ==
    CASE k = "title" ->
            IF m.Title = "" THEN "must be provided"
            ELSE "must not be more than 500 bytes long"
      [] k = "year" ->
            IF m.Year = 0 THEN "must be provided"
            ELSE IF m.Year < 1888 THEN "must be greator than 1888"
            ELSE "must not be in the future"
      [] k = "runtime" ->
            IF m.Runtime = 0 THEN "must be provided" ELSE "must be a positive integers"
      [] k = "genres" ->
            IF m.Genres.isNil THEN "must be provided"
            ELSE IF Len(m.Genres.elems) = 0 THEN "must contain at least 1 genre"
            ELSE IF Len(m.Genres.elems) > 5 THEN "must not contain more than 5 genres"
            ELSE "must not contain duplicate values"

\* C14: after ValidateMovie the Validator holds a message for every offending
\* field of the Movie and for no other key, all of them together, and the one
\* message of a field is that of the first rule the field breaks.
C14_EveryOffendingFieldOnce ==
    validator.ran =>
        /\ DOMAIN validator.Errors = Offending(movie, validator.now)
        /\ \A k \in DOMAIN validator.Errors :
                validator.Errors[k] = FirstMessage(movie, validator.now, k)

C14_Witness ==
    /\ validator.ran
    /\ Len(movie.Genres.elems) = 6 /\ ~Unique(movie.Genres.elems)
    /\ movie.Year = validator.now + 2
    /\ movie.Title = "A" /\ movie.Runtime > 0
    /\ DOMAIN validator.Errors = {"year", "genres"}
    /\ validator.Errors["year"] = "must not be in the future"
    /\ validator.Errors["genres"] = "must not contain more than 5 genres"

\* C15: after ValidateMovie on a fresh Validator, Valid() holds iff the title is
\* non-empty and at most 500 bytes, the year is in 1888..current year, the runtime
\* is positive and there are 1 to 5 pairwise distinct genres; ValidateMovie leaves
\* the Movie as it was.
C15_ValidIffInvariants ==
    [][validator'.ran =>
        /\ Valid(validator') <=>
                /\ movie.Title # "" /\ ByteLen(movie.Title) =< 500
                /\ movie.Year >= 1888 /\ movie.Year =< validator'.now
                /\ movie.Runtime > 0
                /\ Len(movie.Genres.elems) \in 1..5
                /\ Cardinality(Elems(movie.Genres.elems)) = Len(movie.Genres.elems)
        /\ movie' = movie]_vars

C15_Witness ==
    /\ validator.ran /\ Valid(validator)
    /\ movie.Title = "T500" /\ movie.Year = validator.now /\ movie.Runtime = 100
    /\ Len(movie.Genres.elems) = 5 /\ movie.ID = 1 /\ movie.Version = 1

\* A step in which caller c's call returns, at once or with the backend's answer.
Returns(c) == op'[c] # op[c] /\ op'[c].phase = "done"

\* C16: a Get, Update or Delete whose backend call fails returns the storage
\* failure; ErrRecordNotFound and ErrEditConflict are returned only when the
\* statement ran and matched no row (the table is then unchanged), or at once for
\* an id < 1 (Get, Delete).
C16_BackendFailureIsStorageFailure ==
    [][\A c \in Clients :
        (Returns(c) /\ op'[c].kind \in {"Get", "Update", "Delete"}) =>
            /\ op'[c].failed => op'[c].err = ErrStorage
            /\ op'[c].err \in {ErrRecordNotFound, ErrEditConflict} =>
                \/ /\ op'[c].sent = 0 /\ op'[c].kind # "Update" /\ op'[c].id < 1
                    /\ op'[c].err = ErrRecordNotFound
                \/ /\ op[c].phase = "sent" /\ op'[c].sent = 1 /\ ~op'[c].failed
                    /\ movies' = movies
                    /\ IF op[c].kind = "Update"
                       THEN /\ op'[c].err = ErrEditConflict
                            /\ ~\E id \in DOMAIN movies :
                                    /\ id = held[c].ID
                                    /\ movies[id].version = held[c].Version
                       ELSE /\ op'[c].err = ErrRecordNotFound
                            /\ op[c].id \notin DOMAIN movies]_vars

C16_Witness ==
    \E c, d \in Clients :
        /\ op[c].kind = "Get" /\ op[c].phase = "done" /\ op[c].failed
        /\ op[c].err = ErrStorage /\ op[c].id \notin DOMAIN movies
        /\ op[d].kind = "Delete" /\ op[d].phase = "done" /\ ~op[d].failed
        /\ op[d].sent = 1 /\ op[d].err = ErrRecordNotFound

\* C18: an Update that returns nil has written the row's new version, the old one
\* plus 1, into the caller's Movie and nothing else; an Update that returns an error
\* leaves the caller's Movie as it was; and an Update of the Movie a successful
\* Update left, with no write to the row since, returns nil unless the backend
\* call fails.
C18_VersionWrittenBack ==
    [][\A c \in Clients :
        UpdateReturns(c) =>
            /\ op'[c].err = ErrNil =>
                /\ held'[c] = [held[c] EXCEPT !.Version = held[c].Version + 1]
                /\ held'[c].Version = movies'[held[c].ID].version
            /\ op'[c].err # ErrNil => held'[c] = held[c]
            /\ (op[c].from = "update" /\ obs[c].fresh /\ ~op'[c].failed)
                    => op'[c].err = ErrNil]_vars

C18_Witness ==
    \E c \in Clients :
        /\ DoneUpdate(c) /\ op[c].err = ErrNil /\ op[c].from = "update"
        /\ held[c].Version = 3 /\ movies[held[c].ID].version = 3

\* C19: an Update that returns nil replaces title, year, runtime and genres of the
\* row with its id by those of the caller's Movie and raises its version by 1; the
\* row's id and created_at, every other row and the set of stored ids stay as they
\* were; no step of Get or GetAll changes the table.
C19_UpdateFrame ==
    [][/\ \A c \in Clients :
            (UpdateReturns(c) /\ op'[c].err = ErrNil) =>
                LET id == held[c].ID IN
                /\ DOMAIN movies' = DOMAIN movies
                /\ \A i \in DOMAIN movies \ {id} : movies'[i] = movies[i]
                /\ movies'[id].id = movies[id].id
                /\ movies'[id].created_at = movies[id].created_at
                /\ movies'[id].title = held[c].Title /\ movies'[id].year = held[c].Year
                /\ movies'[id].runtime = held[c].Runtime
                /\ movies'[id].genres = held[c].Genres
                /\ movies'[id].version = movies[id].version + 1
       /\ \A c \in Clients :
            (op'[c] # op[c] /\ op'[c].kind \in {"Get", "GetAll"}) => movies' = movies]_vars

C19_Witness ==
    /\ DoneUpdate(Writer) /\ op[Writer].err = ErrNil
    /\ DoneGetAll(Lister) /\ Len(list[Lister].out) = MaxRows
    /\ \E i \in DOMAIN list[Lister].out :
            /\ list[Lister].out[i].ID = held[Writer].ID
            /\ list[Lister].out[i].Title = PayloadB.Title
            /\ list[Lister].out[i].Version = 2
            /\ list[Lister].out[i].CreatedAt = held[Writer].CreatedAt

\* C20: a call of Insert, Get, Update or Delete sends at most one statement, none
\* when it returns at once on id < 1; the backend's answer to it, failure
\* included, ends the call, and a returned call sends nothing until a new call is
\* made.  So the table changes only in the step that ends a call, by the one
\* statement of that call: at most one new row, and no version raised by more than 1.
C20_OneStatementPerCall ==
    [][/\ \A c \in Clients :
            /\ op'[c].sent \in {0, 1}
            /\ (op'[c].kind \in {"Get", "Delete"} /\ op'[c].id < 1) => op'[c].sent = 0
            /\ (/\ op'[c].phase = "sent" /\ op[c].phase # "sent"
                /\ op'[c].kind \in {"Insert", "Get", "Update", "Delete"})
                    => calls' = calls + 1
            /\ (op[c].phase = "sent" /\ op'[c].failed) => op'[c].phase = "done"
       /\ (movies' # movies \/ nextId' # nextId) =>
            /\ Cardinality({c \in Clients :
                    /\ op[c].phase = "sent" /\ op'[c].phase = "done"
                    /\ op'[c].sent = 1}) = 1
            /\ Cardinality(DOMAIN movies' \ DOMAIN movies) =< 1
            /\ nextId' - nextId =< 1
            /\ \A id \in DOMAIN movies' \cap DOMAIN movies :
                    movies'[id].version - movies[id].version \in {0, 1}]_vars

C20_Witness ==
    \E c, d \in Clients :
        /\ op[c].kind = "Insert" /\ op[c].phase = "done" /\ op[c].failed
        /\ op[c].sent = 1 /\ Cardinality(DOMAIN movies) = 1 /\ nextId = 2
        /\ op[d].kind = "Update" /\ op[d].phase = "done" /\ op[d].failed
        /\ op[d].sent = 1 /\ held[d].ID \in DOMAIN movies
        /\ movies[held[d].ID].version = 2

\* C21: the id an INSERT gives is greater than every id given before it (those of
\* the stored rows and of the rows deleted), so a deleted id never has a row again:
\* once a DELETE removed row id, every Get(id) whose statement the backend answers
\* returns ErrRecordNotFound and every such Update with that id ErrEditConflict,
\* leaving the table as it is, whatever Inserts came in between.
C21_IdsNeverReused ==
    [][/\ \A id \in DOMAIN movies' \ DOMAIN movies :
            \A j \in DOMAIN movies \cup deleted : id > j
       /\ deleted \subseteq deleted' /\ deleted' \cap DOMAIN movies' = {}
       /\ \A c \in Clients :
            (DeleteReturns(c) /\ op'[c].err = ErrNil) => op[c].id \in deleted'
       /\ \A c \in Clients :
            (GetReturns(c) /\ op[c].id \in deleted /\ ~op'[c].failed)
                => op'[c].err = ErrRecordNotFound
       /\ \A c \in Clients :
            (UpdateReturns(c) /\ held[c].ID \in deleted)
                => /\ movies' = movies
                   /\ ~op'[c].failed => op'[c].err = ErrEditConflict]_vars

C21_Witness ==
    \E c \in Clients, id \in deleted :
        /\ \E j \in DOMAIN movies : j > id
        /\ DoneUpdate(c) /\ held[c].ID = id /\ held[c].Version = 1
        /\ op[c].from = "insert" /\ op[c].err = ErrEditConflict

\* C22: an Update of a Movie its caller read with Get, carrying the version read,
\* with no UPDATE or DELETE applied to that row since the Get, returns nil when the
\* backend answers it; so an Update after Get that returns ErrEditConflict had
\* another caller's write applied to the row since the Get: someone made progress.
C22_ConflictNeverSpurious ==
    [][\A c \in Clients :
        (UpdateReturns(c) /\ op[c].from = "get" /\ ~op'[c].failed) =>
            /\ obs[c].fresh =>
                /\ op'[c].err = ErrNil
                /\ movies'[held[c].ID].version = held[c].Version + 1
            /\ op'[c].err = ErrEditConflict =>
                /\ ~obs[c].fresh
                /\ \/ held[c].ID \in deleted
                   \/ movies[held[c].ID].version > held[c].Version]_vars

C22_Witness ==
    \E c, d \in Clients :
        /\ DoneUpdate(c) /\ op[c].from = "get" /\ op[c].err = ErrNil
        /\ DoneUpdate(d) /\ op[d].from = "insert" /\ op[d].err = ErrEditConflict
        /\ held[c].ID = held[d].ID /\ held[c].Version = 2 /\ held[d].Version = 1

DoneDelete(c) == op[c].kind = "Delete" /\ op[c].phase = "done"

\* C23: of two Deletes of the same stored row in flight together (the two callers
\* being the only ones), one returns nil and the other ErrRecordNotFound; of a
\* Delete and an Update carrying the row's version in flight together, the Delete
\* returns nil and the Update returns nil, having been applied while the Delete was
\* still in flight, or ErrEditConflict; the row is absent once the Delete returned nil.
C23_ConcurrentDelete ==
    [][\A a, b \in Clients :
        /\ (/\ a # b /\ DoneDelete(a)' /\ DoneDelete(b)' /\ op'[a].id = op'[b].id
            /\ op'[a].peer = "Delete" /\ op'[b].peer = "Delete")
                => /\ {op'[a].err, op'[b].err} = {ErrNil, ErrRecordNotFound}
                   /\ op'[a].id \notin DOMAIN movies'
        /\ (/\ a # b /\ DoneDelete(a)' /\ op'[a].peer = "Update"
            /\ DoneUpdate(b)' /\ op'[b].peer = "Delete" /\ held'[b].ID = op'[a].id)
                => /\ op'[a].err = ErrNil
                   /\ op'[b].err \in {ErrNil, ErrEditConflict}
                   /\ op'[a].id \notin DOMAIN movies'
        /\ (/\ a # b /\ UpdateReturns(b) /\ op[b].peer = "Delete"
            /\ op'[b].err = ErrNil /\ op[a].kind = "Delete" /\ op[a].id = held[b].ID)
                => op[a].phase = "sent" /\ op[a].peer = "Update"
        /\ (DeleteReturns(a) /\ op'[a].err = ErrNil)
                => op[a].id \notin DOMAIN movies']_vars

C23_Witness ==
    \E a, b \in Clients :
        /\ DoneDelete(a) /\ op[a].peer = "Update" /\ op[a].err = ErrNil
        /\ DoneUpdate(b) /\ op[b].peer = "Delete" /\ op[b].err = ErrNil
        /\ held[b].ID = op[a].id /\ held[b].Version = 2
        /\ op[a].id \in deleted /\ op[a].id \notin DOMAIN movies

====
